---- MODULE Spec2Model ----
(***************************************************************************)
(* A model of task_1.py: the contact record (Field, Phone, Birthday,       *)
(* Record), the directory (AddressBook), the upcoming-birthday calculation *)
(* and the command loop (parse_input, the @input_error handlers, main).    *)
(*                                                                         *)
(* A Python str is a sequence of one-character strings.  The character     *)
(* "sup2" stands for U+00B2 (SUPERSCRIPT TWO), a character for which       *)
(* str.isdigit() is True although it is not a decimal digit.               *)
(***************************************************************************)
EXTENDS Integers, Sequences, FiniteSets, TLC

VARIABLES heap, book, out, pre, today, status

vars == <<heap, book, out, pre, today, status>>

(***************************************************************************)
(* Bounds of the model.                                                    *)
(***************************************************************************)
MaxPhones == 2
MaxRecords == 3
MaxContacts == 1
MaxArgs == 3
NumYears == 2

(***************************************************************************)
(* Python values.                                                          *)
(***************************************************************************)
NoErr == "-"
ValueError == "ValueError"
IndexError == "IndexError"

None == [kind |-> "None"]

\* A value that is not a str (an int argument): isinstance(value, str) is False.
NonStr == <<"#int">>

AsciiDigits == {"0", "1", "2", "3", "4", "5", "6", "7", "8", "9"}

\* The characters c with c.isdigit(): the decimal digits and the other
\* characters of Unicode's Numeric_Type=Digit, here the superscript two.
IsDigitChar(c) == c \in AsciiDigits \cup {"sup2"}

\* isinstance(value, str)
IsStr(value) == value # NonStr

\* str.isdigit(): every character is a digit and there is at least one.
isdigit(s) == Len(s) > 0 /\ \A i \in 1..Len(s) : IsDigitChar(s[i])

\* A string of exactly 10 decimal digits, the spec's PhoneNumber.
TenDecimalDigits(s) == Len(s) = 10 /\ \A i \in 1..Len(s) : s[i] \in AsciiDigits

Rep(c, n) == [i \in 1..n |-> c]

(***************************************************************************)
(* Phone.__init__: the value is kept when it passes the check, ValueError  *)
(* is raised otherwise.                                                    *)
(***************************************************************************)
Phone(value) ==
    IF ~IsStr(value) \/ ~isdigit(value) \/ Len(value) # 10
    THEN [raised |-> ValueError, value |-> value]
    ELSE [raised |-> NoErr, value |-> value]

(***************************************************************************)
(* datetime.date: a record [y, m, d].                                      *)
(***************************************************************************)
IsLeap(y) == y % 4 = 0 /\ (y % 100 # 0 \/ y % 400 = 0)

DaysInMonth(y, m) ==
    IF m = 2 THEN (IF IsLeap(y) THEN 29 ELSE 28)
    ELSE IF m \in {4, 6, 9, 11} THEN 30 ELSE 31

\* date(y, m, d) is constructible (MINYEAR = 1, MAXYEAR = 9999).
ValidDate(y, m, d) ==
    /\ y \in 1..9999
    /\ m \in 1..12
    /\ d \in 1..DaysInMonth(y, m)

Date(y, m, d) == [y |-> y, m |-> m, d |-> d]

NoDate == Date(0, 0, 0)

\* Days before the first day of month m in a non-leap year.
DaysBeforeMonthTable == <<0, 31, 59, 90, 120, 151, 181, 212, 243, 273, 304, 334>>

DaysBeforeMonth(y, m) ==
    DaysBeforeMonthTable[m] + (IF m > 2 /\ IsLeap(y) THEN 1 ELSE 0)

DaysBeforeYear(y) ==
    (y - 1) * 365 + ((y - 1) \div 4) - ((y - 1) \div 100) + ((y - 1) \div 400)

\* date.toordinal(): 0001-01-01 is day 1.
toordinal(dt) == DaysBeforeYear(dt.y) + DaysBeforeMonth(dt.y, dt.m) + dt.d

\* date.weekday(): Monday is 0, Saturday 5, Sunday 6.
weekday(dt) == (toordinal(dt) + 6) % 7

\* date < date
DateLess(a, b) ==
    \/ a.y < b.y
    \/ a.y = b.y /\ a.m < b.m
    \/ a.y = b.y /\ a.m = b.m /\ a.d < b.d

NextDay(dt) ==
    IF dt.d < DaysInMonth(dt.y, dt.m) THEN Date(dt.y, dt.m, dt.d + 1)
    ELSE IF dt.m < 12 THEN Date(dt.y, dt.m + 1, 1)
    ELSE Date(dt.y + 1, 1, 1)

\* date + timedelta(days=n), n >= 0.
RECURSIVE AddDays(_, _)
AddDays(dt, n) == IF n = 0 THEN dt ELSE AddDays(NextDay(dt), n - 1)

\* date.replace(year=y): ValueError when the month/day does not exist in y.
replace_year(dt, y) ==
    IF ValidDate(y, dt.m, dt.d)
    THEN [raised |-> NoErr, date |-> Date(y, dt.m, dt.d)]
    ELSE [raised |-> ValueError, date |-> NoDate]

(***************************************************************************)
(* Birthday.__init__: datetime.strptime(value, '%d.%m.%Y').date().         *)
(* The format compiles to the regular expression                           *)
(*   (3[0-1]|[1-2]\d|0[1-9]|[1-9]| [1-9])\.(1[0-2]|0[1-9]|[1-9])\.(\d\d\d\d) *)
(* which must match the whole text; the three numbers must then make a     *)
(* date.  Every failure is re-raised as ValueError.                        *)
(***************************************************************************)
DigitChars == <<"0", "1", "2", "3", "4", "5", "6", "7", "8", "9">>

DigitVal(c) == (CHOOSE i \in 1..10 : DigitChars[i] = c) - 1

RECURSIVE int(_)
int(s) ==
    IF Len(s) = 0 THEN 0
    ELSE 10 * int(SubSeq(s, 1, Len(s) - 1)) + DigitVal(s[Len(s)])

AllAsciiDigits(s) == \A i \in 1..Len(s) : s[i] \in AsciiDigits

\* s.split(sep) for a one-character separator.
RECURSIVE SplitOn(_, _)
SplitOn(s, sep) ==
    IF \A i \in 1..Len(s) : s[i] # sep THEN <<s>>
    ELSE LET i == CHOOSE k \in 1..Len(s) :
                      s[k] = sep /\ \A j \in 1..(k - 1) : s[j] # sep
         IN  <<SubSeq(s, 1, i - 1)>> \o SplitOn(SubSeq(s, i + 1, Len(s)), sep)

\* The text matches the regular expression of '%d.%m.%Y'.
MatchesFormat(text) ==
    LET f == SplitOn(text, ".")
    IN  /\ Len(f) = 3
        /\ Len(f[1]) \in {1, 2} /\ AllAsciiDigits(f[1]) /\ int(f[1]) \in 1..31
        /\ Len(f[2]) \in {1, 2} /\ AllAsciiDigits(f[2]) /\ int(f[2]) \in 1..12
        /\ Len(f[3]) = 4 /\ AllAsciiDigits(f[3])

strptime(text) ==
    IF ~MatchesFormat(text) THEN [raised |-> ValueError, date |-> NoDate]
    ELSE LET f == SplitOn(text, ".")
             y == int(f[3])
             m == int(f[2])
             d == int(f[1])
         IN  IF ValidDate(y, m, d)
             THEN [raised |-> NoErr, date |-> Date(y, m, d)]
             ELSE [raised |-> ValueError, date |-> NoDate]

\* Birthday(value): the object keeps the text and the parsed date.
Birthday(value) ==
    LET p == strptime(value)
    IN  IF p.raised # NoErr
        THEN [raised |-> ValueError, obj |-> None]
        ELSE [raised |-> NoErr,
              obj |-> [kind |-> "Birthday", value |-> value, date_value |-> p.date]]

\* isinstance(x, Birthday)
IsBirthday(x) == x.kind = "Birthday"

\* Truth value of an object reference: None is false; Birthday and Record
\* define neither __bool__ nor __len__, so every instance is true.
Truthy(x) == x # None

(***************************************************************************)
(* Record: [name, phones, birthday]; phones is the list of the Phone       *)
(* objects' values, in list order.                                         *)
(***************************************************************************)
Record(name) == [name |-> name, phones |-> <<>>, birthday |-> None]

\* Index of the first phone whose value equals v, 0 when there is none
\* (the loop "for p in self.phones: if p.value == v").
FirstMatch(phones, v) ==
    IF \E i \in 1..Len(phones) : phones[i] = v
    THEN CHOOSE i \in 1..Len(phones) :
             phones[i] = v /\ \A j \in 1..(i - 1) : phones[j] # v
    ELSE 0

RemoveAt(s, i) == SubSeq(s, 1, i - 1) \o SubSeq(s, i + 1, Len(s))

\* Record.add_phone
Record_add_phone(rec, phone) ==
    LET p == Phone(phone)
    IN  IF p.raised # NoErr
        THEN [raised |-> p.raised, rec |-> rec]
        ELSE [raised |-> NoErr, rec |-> [rec EXCEPT !.phones = Append(@, p.value)]]

\* add_birthday without the test of self.birthday.
add_birthday_overwrites(rec, birthday) ==
    IF ~IsBirthday(birthday) THEN [raised |-> ValueError, rec |-> rec]
    ELSE [raised |-> NoErr, rec |-> [rec EXCEPT !.birthday = birthday]]

\* Record.add_birthday
Record_add_birthday(rec, birthday) ==
    IF ~IsBirthday(birthday) THEN [raised |-> ValueError, rec |-> rec]
    ELSE IF Truthy(rec.birthday) THEN [raised |-> ValueError, rec |-> rec]
    ELSE [raised |-> NoErr, rec |-> [rec EXCEPT !.birthday = birthday]]

\* Record.remove_phone; printed tells whether "not found" was printed.
Record_remove_phone(rec, phone) ==
    LET i == FirstMatch(rec.phones, phone)
    IN  IF i # 0
        THEN [raised |-> NoErr, printed |-> FALSE,
              rec |-> [rec EXCEPT !.phones = RemoveAt(@, i)]]
        ELSE [raised |-> NoErr, printed |-> TRUE, rec |-> rec]

\* edit_phone without the break: every phone equal to old_phone is replaced.
edit_phone_every_match(rec, old_phone, new_phone) ==
    IF FirstMatch(rec.phones, old_phone) = 0 THEN [raised |-> NoErr, rec |-> rec]
    ELSE LET p == Phone(new_phone)
         IN  IF p.raised # NoErr
             THEN [raised |-> p.raised, rec |-> rec]
             ELSE [raised |-> NoErr,
                   rec |-> [rec EXCEPT !.phones =
                               [j \in 1..Len(rec.phones) |->
                                   IF rec.phones[j] = old_phone THEN p.value
                                   ELSE rec.phones[j]]]]

\* edit_phone that constructs Phone(new_phone) before it looks for old_phone.
edit_phone_validates_first(rec, old_phone, new_phone) ==
    LET p == Phone(new_phone)
        i == FirstMatch(rec.phones, old_phone)
    IN  IF p.raised # NoErr THEN [raised |-> p.raised, rec |-> rec]
        ELSE IF i = 0 THEN [raised |-> NoErr, rec |-> rec]
        ELSE [raised |-> NoErr, rec |-> [rec EXCEPT !.phones[i] = p.value]]

\* Record.edit_phone
Record_edit_phone(rec, old_phone, new_phone) ==
    LET i == FirstMatch(rec.phones, old_phone)
    IN  IF i = 0 THEN [raised |-> NoErr, rec |-> rec]
        ELSE LET p == Phone(new_phone)
             IN  IF p.raised # NoErr
                 THEN [raised |-> p.raised, rec |-> rec]
                 ELSE [raised |-> NoErr,
                       rec |-> [rec EXCEPT !.phones[i] = p.value]]

\* Record.find_phone: the position of the Phone object returned, 0 for None.
Record_find_phone(rec, number) == FirstMatch(rec.phones, number)

(***************************************************************************)
(* Inputs of the record-level operations.                                  *)
(***************************************************************************)
NameA == <<"a", "n", "n">>
NameB == <<"b", "o", "b">>
Names == {NameA, NameB}

PhoneOne == Rep("1", 10)
PhoneTwo == Rep("2", 10)
PhoneSup == Rep("sup2", 10)
PhoneShort == Rep("1", 9)
PhoneAlpha == Rep("1", 9) \o <<"x">>

PhoneInputs ==
    {PhoneOne, PhoneTwo, PhoneSup, PhoneShort, PhoneAlpha, NonStr}

TextLeapDay == <<"2", "9", ".", "0", "2", ".", "2", "0", "2", "4">>
TextJune == <<"1", "5", ".", "0", "6", ".", "1", "9", "9", "0">>
TextNoLeapDay == <<"2", "9", ".", "0", "2", ".", "2", "0", "2", "3">>
TextFeb31 == <<"3", "1", ".", "0", "2", ".", "2", "0", "2", "4">>

BirthdayTexts == {TextLeapDay, TextJune, TextNoLeapDay, TextFeb31, NameA}

\* The arguments given to Record.add_birthday: the Birthday objects that can
\* be constructed from the texts, and a str, which is not a Birthday.
BirthdayArgs ==
    {Birthday(t).obj : t \in {u \in BirthdayTexts : Birthday(u).raised = NoErr}}
        \cup {[kind |-> "str", value |-> TextJune, date_value |-> NoDate]}

Refs == 1..Len(heap)

Entry == [heap |-> heap, book |-> book]

Call(op, args, raised, ret) ==
    [op |-> op, args |-> args, raised |-> raised, ret |-> ret]

(***************************************************************************)
(* The record-level operations on the record heap[r].                      *)
(***************************************************************************)
AddPhone(r, phone) ==
    LET res == Record_add_phone(heap[r], phone)
    IN  /\ Len(heap[r].phones) < MaxPhones \/ res.raised # NoErr
        /\ heap' = [heap EXCEPT ![r] = res.rec]
        /\ out' = Call("add_phone", <<r, phone>>, res.raised, 0)
        /\ pre' = Entry
        /\ UNCHANGED <<book, today, status>>

RemovePhone(r, phone) ==
    LET res == Record_remove_phone(heap[r], phone)
    IN  /\ heap' = [heap EXCEPT ![r] = res.rec]
        /\ out' = Call("remove_phone", <<r, phone>>, res.raised, 0)
        /\ pre' = Entry
        /\ UNCHANGED <<book, today, status>>

EditPhone(r, old_phone, new_phone) ==
    LET res == Record_edit_phone(heap[r], old_phone, new_phone)
    IN  /\ heap' = [heap EXCEPT ![r] = res.rec]
        /\ out' = Call("edit_phone", <<r, old_phone, new_phone>>, res.raised, 0)
        /\ pre' = Entry
        /\ UNCHANGED <<book, today, status>>

FindPhone(r, number) ==
    /\ out' = Call("find_phone", <<r, number>>, NoErr, Record_find_phone(heap[r], number))
    /\ pre' = Entry
    /\ UNCHANGED <<heap, book, today, status>>

AddBirthday(r, birthday) ==
    LET res == Record_add_birthday(heap[r], birthday)
    IN  /\ heap' = [heap EXCEPT ![r] = res.rec]
        /\ out' = Call("add_birthday", <<r, birthday>>, res.raised, 0)
        /\ pre' = Entry
        /\ UNCHANGED <<book, today, status>>

\* One record, as Record(name) constructs it.
Init ==
    /\ heap = <<Record(NameA)>>
    /\ book = <<>>
    /\ out = Call("Record", <<1>>, NoErr, 0)
    /\ pre = [heap |-> <<>>, book |-> <<>>]
    /\ today = NoDate
    /\ status = "api"

Next ==
    \/ \E r \in Refs, phone \in PhoneInputs : AddPhone(r, phone)
    \/ \E r \in Refs, phone \in PhoneInputs : RemovePhone(r, phone)
    \/ \E r \in Refs, old_phone, new_phone \in PhoneInputs :
           EditPhone(r, old_phone, new_phone)
    \/ \E r \in Refs, number \in PhoneInputs : FindPhone(r, number)
    \/ \E r \in Refs, birthday \in BirthdayArgs : AddBirthday(r, birthday)

Spec == Init /\ [][Next]_vars

(***************************************************************************)
(* AddressBook (a UserDict).  self.data is a dict: a sequence of entries   *)
(* [key, ref] in insertion order, no key twice; ref is the position in     *)
(* heap of the Record object the entry refers to.                          *)
(***************************************************************************)
KeyIndex(data, key) ==
    IF \E i \in 1..Len(data) : data[i].key = key
    THEN CHOOSE i \in 1..Len(data) : data[i].key = key
    ELSE 0

\* self.data[key] = ref: an existing key keeps its position.
SetItem(data, key, ref) ==
    LET i == KeyIndex(data, key)
    IN  IF i = 0 THEN Append(data, [key |-> key, ref |-> ref])
        ELSE [data EXCEPT ![i].ref = ref]

\* add_record that keeps the record already stored under the name.
add_record_keeps_first(data, key, ref) ==
    IF KeyIndex(data, key) = 0 THEN Append(data, [key |-> key, ref |-> ref]) ELSE data

\* AddressBook.add_record
AddressBook_add_record(data, key, ref) == SetItem(data, key, ref)

\* AddressBook.find: self.data.get(name); 0 stands for None.
AddressBook_find(data, name) ==
    LET i == KeyIndex(data, name)
    IN  IF i = 0 THEN 0 ELSE data[i].ref

\* AddressBook.delete
AddressBook_delete(data, name) ==
    LET i == KeyIndex(data, name)
    IN  IF i # 0 THEN RemoveAt(data, i) ELSE data

(***************************************************************************)
(* AddressBook.get_upcoming_birthdays                                      *)
(***************************************************************************)
Pad(n, width) ==
    [i \in 1..width |-> DigitChars[((n \div (10 ^ (width - i))) % 10) + 1]]

\* date.strftime("%Y.%m.%d")
strftime(dt) == Pad(dt.y, 4) \o <<".">> \o Pad(dt.m, 2) \o <<".">> \o Pad(dt.d, 2)

\* The weekend shift with a Saturday moved by one day only.
shift_saturday_by_one(birthday_this_year) ==
    IF weekday(birthday_this_year) \in {5, 6}
    THEN AddDays(birthday_this_year, 1)
    ELSE birthday_this_year

\* The weekend shift of lines 92-96.
Shift(birthday_this_year) ==
    IF weekday(birthday_this_year) \in {5, 6}
    THEN IF weekday(birthday_this_year) = 5
         THEN AddDays(birthday_this_year, 2)
         ELSE AddDays(birthday_this_year, 1)
    ELSE birthday_this_year

\* Is days_until_birthday in the window of line 91.
InWindow(days_until_birthday) ==
    0 <= days_until_birthday /\ days_until_birthday <= 7

\* The loop body for one record with a birthday: the exception raised, or
\* the entries appended to upcoming_birthdays (none or one).
UpcomingOf(rec, now) ==
    LET birthday == rec.birthday.date_value
        first == replace_year(birthday, now.y)
    IN  IF first.raised # NoErr THEN [raised |-> first.raised, add |-> <<>>]
        ELSE LET second == IF DateLess(first.date, now)
                           THEN replace_year(first.date, now.y + 1)
                           ELSE first
             IN  IF second.raised # NoErr
                 THEN [raised |-> second.raised, add |-> <<>>]
                 ELSE LET birthday_this_year == second.date
                          days_until_birthday ==
                              toordinal(birthday_this_year) - toordinal(now)
                      IN  IF InWindow(days_until_birthday)
                          THEN [raised |-> NoErr,
                                add |-> <<[name |-> rec.name,
                                           congratulation_date |->
                                               strftime(Shift(birthday_this_year))]>>]
                          ELSE [raised |-> NoErr, add |-> <<>>]

\* The loop over self.data.values() from entry i on, upcoming being the list
\* built so far; an exception ends the call.
RECURSIVE UpcomingFrom(_, _, _, _, _)
UpcomingFrom(h, data, now, i, upcoming) ==
    IF i > Len(data) THEN [raised |-> NoErr, ret |-> upcoming]
    ELSE LET rec == h[data[i].ref]
         IN  IF ~Truthy(rec.birthday)
             THEN UpcomingFrom(h, data, now, i + 1, upcoming)
             ELSE LET one == UpcomingOf(rec, now)
                  IN  IF one.raised # NoErr
                      THEN [raised |-> one.raised, ret |-> <<>>]
                      ELSE UpcomingFrom(h, data, now, i + 1, upcoming \o one.add)

AddressBook_get_upcoming_birthdays(h, data, now) == UpcomingFrom(h, data, now, 1, <<>>)

(***************************************************************************)
(* The directory-level operations.                                         *)
(***************************************************************************)
AddRecord(r) ==
    /\ book' = AddressBook_add_record(book, heap[r].name, r)
    /\ out' = Call("add_record", <<r>>, NoErr, 0)
    /\ pre' = Entry
    /\ UNCHANGED <<heap, today, status>>

Find(name) ==
    /\ out' = Call("find", <<name>>, NoErr, AddressBook_find(book, name))
    /\ pre' = Entry
    /\ UNCHANGED <<heap, book, today, status>>

Delete(name) ==
    /\ book' = AddressBook_delete(book, name)
    /\ out' = Call("delete", <<name>>, NoErr, 0)
    /\ pre' = Entry
    /\ UNCHANGED <<heap, today, status>>

\* The records that Record(name), add_phone and add_birthday construct.
WithPhone(rec, phone) == Record_add_phone(rec, phone).rec

WithBirthday(rec, text) == Record_add_birthday(rec, Birthday(text).obj).rec

RecordInputs ==
    {Record(name) : name \in Names}
        \cup {WithBirthday(WithPhone(Record(name), PhoneOne), TextJune) : name \in Names}

\* MaxRecords Record objects, none of them in the directory yet.
InitBook ==
    /\ heap \in [1..MaxRecords -> RecordInputs]
    /\ book = <<>>
    /\ out = Call("AddressBook", <<>>, NoErr, 0)
    /\ pre = [heap |-> <<>>, book |-> <<>>]
    /\ today = NoDate
    /\ status = "api"

NextBook ==
    \/ \E r \in Refs : AddRecord(r)
    \/ \E name \in Names : Find(name)
    \/ \E name \in Names : Delete(name)

SpecBook == InitBook /\ [][NextBook]_vars

(***************************************************************************)
(* The upcoming-birthday calculation for every reference date.             *)
(***************************************************************************)
Years == 2023..(2023 + NumYears - 1)

Days == {dt \in [y : Years, m : 1..12, d : 1..31] : ValidDate(dt.y, dt.m, dt.d)}

\* Every birthday text DD.MM.2000 that Birthday accepts (2000 is a leap year).
AllBirthdayTexts ==
    {Pad(dt.d, 2) \o <<".">> \o Pad(dt.m, 2) \o <<".">> \o Pad(2000, 4) :
        dt \in {x \in [y : {2000}, m : 1..12, d : 1..31] : ValidDate(x.y, x.m, x.d)}}

TextNewYear == <<"0", "1", ".", "0", "1", ".", "1", "9", "9", "0">>

CompanionTexts == {TextLeapDay, TextJune, TextNewYear}

GetUpcomingBirthdays ==
    LET res == AddressBook_get_upcoming_birthdays(heap, book, today)
    IN  /\ status = "api"
        /\ out' = Call("get_upcoming_birthdays", <<>>, res.raised, res.ret)
        /\ pre' = Entry
        /\ status' = "called"
        /\ UNCHANGED <<heap, book, today>>

\* A directory of one record, with any birthday or none, or of two records
\* with birthdays; datetime.today() is any day of Years.
InitBirthdays ==
    /\ today \in Days
    /\ \/ heap \in {<<Record(NameA)>>}
                  \cup {<<WithBirthday(Record(NameA), t)>> : t \in AllBirthdayTexts}
       \/ heap \in {<<WithBirthday(Record(NameA), t), WithBirthday(Record(NameB), u)>> :
                        t \in CompanionTexts, u \in CompanionTexts}
    /\ book = [i \in 1..Len(heap) |-> [key |-> heap[i].name, ref |-> i]]
    /\ out = Call("AddressBook", <<>>, NoErr, 0)
    /\ pre = [heap |-> <<>>, book |-> <<>>]
    /\ status = "api"

NextBirthdays == GetUpcomingBirthdays

SpecBirthdays == InitBirthdays /\ [][NextBirthdays]_vars

(***************************************************************************)
(* The command loop.                                                       *)
(***************************************************************************)
KeyError == "KeyError"

Cmd_close == <<"c", "l", "o", "s", "e">>
Cmd_exit == <<"e", "x", "i", "t">>
Cmd_hello == <<"h", "e", "l", "l", "o">>
Cmd_add == <<"a", "d", "d">>
Cmd_change == <<"c", "h", "a", "n", "g", "e">>
Cmd_phone == <<"p", "h", "o", "n", "e">>
Cmd_all == <<"a", "l", "l">>
Cmd_add_birthday == <<"a", "d", "d", "-", "b", "i", "r", "t", "h", "d", "a", "y">>
Cmd_show_birthday == <<"s", "h", "o", "w", "-", "b", "i", "r", "t", "h", "d", "a", "y">>
Cmd_birthdays == <<"b", "i", "r", "t", "h", "d", "a", "y", "s">>
Cmd_unknown == <<"f", "o", "o">>

\* str.strip()
RECURSIVE strip(_)
strip(s) ==
    IF Len(s) = 0 THEN s
    ELSE IF s[1] = " " THEN strip(Tail(s))
    ELSE IF s[Len(s)] = " " THEN strip(SubSeq(s, 1, Len(s) - 1))
    ELSE s

\* str.split(): the maximal runs of non-whitespace characters.
RECURSIVE split(_)
split(s) ==
    IF Len(s) = 0 THEN <<>>
    ELSE IF s[1] = " " THEN split(Tail(s))
    ELSE LET n == IF \E k \in 1..Len(s) : s[k] = " "
                  THEN (CHOOSE k \in 1..Len(s) :
                            s[k] = " " /\ \A j \in 1..(k - 1) : s[j] # " ") - 1
                  ELSE Len(s)
         IN  <<SubSeq(s, 1, n)>> \o split(SubSeq(s, n + 1, Len(s)))

\* parse_input: parts[0] raises IndexError when the line holds no word.
parse_input(user_input) ==
    LET parts == split(strip(user_input))
    IN  IF Len(parts) = 0
        THEN [raised |-> IndexError, command |-> <<>>, args |-> <<>>]
        ELSE [raised |-> NoErr, command |-> parts[1], args |-> Tail(parts)]

\* A returned or printed text: a format and the values formatted into it.
Msg(text, with) == [text |-> text, with |-> with]

\* What a handler call leaves: the exception raised (msg is then str(e)) or the
\* text returned, and the objects as the call left them.
Result(raised, msg, h, data) == [raised |-> raised, msg |-> msg, heap |-> h, book |-> data]

\* The decorator input_error: KeyError, ValueError and IndexError become the
\* returned text str(e); what the call changed before raising stays changed.
input_error(res) ==
    IF res.raised \in {KeyError, ValueError, IndexError}
    THEN [res EXCEPT !.raised = NoErr]
    ELSE res

PhoneErrorText == "Phone number must be a string of 10 digits."

\* add_contact, undecorated
add_contact_body(args, h, data) ==
    IF Len(args) < 2
    THEN Result(ValueError,
                Msg("not enough values to unpack (expected at least 2, got {})", <<Len(args)>>),
                h, data)
    ELSE LET name == args[1]
             phone == args[2]
             found == AddressBook_find(data, name)
             h1 == IF found = 0 THEN Append(h, Record(name)) ELSE h
             record == IF found = 0 THEN Len(h) + 1 ELSE found
             data1 == IF found = 0 THEN AddressBook_add_record(data, name, record) ELSE data
             message == IF found = 0 THEN "Contact added." ELSE "Contact updated."
         IN  IF Len(phone) > 0
             THEN LET res == Record_add_phone(h1[record], phone)
                  IN  IF res.raised # NoErr
                      THEN Result(res.raised, Msg(PhoneErrorText, <<>>), h1, data1)
                      ELSE Result(NoErr, Msg(message, <<>>),
                                  [h1 EXCEPT ![record] = res.rec], data1)
             ELSE Result(NoErr, Msg(message, <<>>), h1, data1)

add_contact(args, h, data) == input_error(add_contact_body(args, h, data))

\* change_phone, undecorated
change_phone_body(args, h, data) ==
    IF Len(args) < 3
    THEN Result(ValueError,
                Msg("not enough values to unpack (expected at least 3, got {})", <<Len(args)>>),
                h, data)
    ELSE LET name == args[1]
             old_phone == args[2]
             new_phone == args[3]
             record == AddressBook_find(data, name)
         IN  IF record = 0
             THEN Result(NoErr, Msg("Contact {name} not found.", <<name>>), h, data)
             ELSE LET res == Record_edit_phone(h[record], old_phone, new_phone)
                  IN  IF res.raised # NoErr
                      THEN Result(res.raised, Msg(PhoneErrorText, <<>>), h, data)
                      ELSE Result(NoErr,
                                  Msg("Phone number for {name} changed from {old_phone} to {new_phone}.",
                                      <<name, old_phone, new_phone>>),
                                  [h EXCEPT ![record] = res.rec], data)

change_phone(args, h, data) == input_error(change_phone_body(args, h, data))

\* show_phone, undecorated
show_phone_body(args, h, data) ==
    IF Len(args) = 0
    THEN Result(IndexError, Msg("list index out of range", <<>>), h, data)
    ELSE LET name == args[1]
             record == AddressBook_find(data, name)
         IN  IF record = 0
             THEN Result(NoErr, Msg("Contact {name} not found.", <<name>>), h, data)
             ELSE Result(NoErr, Msg("{name}'s phone numbers: {phones}",
                                    <<name, h[record].phones>>), h, data)

show_phone(args, h, data) == input_error(show_phone_body(args, h, data))

\* Record.__str__
Record_str(rec) ==
    Msg("Contact name: {name}, phones: {phones}, birthday: {birthday}",
        <<rec.name, rec.phones,
          IF Truthy(rec.birthday) THEN rec.birthday.value ELSE <<"N", "o", "t", " ", "s", "e", "t">> >>)

\* show_all_contacts, undecorated
show_all_contacts_body(args, h, data) ==
    IF Len(data) = 0
    THEN Result(NoErr, Msg("No contacts found.", <<>>), h, data)
    ELSE Result(NoErr, Msg("All contacts:", [i \in 1..Len(data) |-> Record_str(h[data[i].ref])]),
                h, data)

show_all_contacts(args, h, data) == input_error(show_all_contacts_body(args, h, data))

\* add_birthday, undecorated; its own try/except already returns str(e).
add_birthday_body(args, h, data) ==
    IF Len(args) < 2
    THEN Result(ValueError,
                Msg("not enough values to unpack (expected 2, got {})", <<Len(args)>>), h, data)
    ELSE IF Len(args) > 2
    THEN Result(ValueError, Msg("too many values to unpack (expected 2)", <<>>), h, data)
    ELSE LET name == args[1]
             birthday_str == args[2]
             record == AddressBook_find(data, name)
         IN  IF record = 0
             THEN Result(NoErr, Msg("Contact {name} not found.", <<name>>), h, data)
             ELSE LET birthday == Birthday(birthday_str)
                  IN  IF birthday.raised # NoErr
                      THEN Result(NoErr, Msg("Invalid date format. Use DD.MM.YYYY", <<>>), h, data)
                      ELSE LET res == Record_add_birthday(h[record], birthday.obj)
                           IN  IF res.raised # NoErr
                               THEN Result(NoErr,
                                           Msg("Only one birthday allowed per record.", <<>>),
                                           h, data)
                               ELSE Result(NoErr,
                                           Msg("Birthday for {name} added as {birthday_str}.",
                                               <<name, birthday_str>>),
                                           [h EXCEPT ![record] = res.rec], data)

add_birthday(args, h, data) == input_error(add_birthday_body(args, h, data))

\* show_birthday, undecorated
show_birthday_body(args, h, data) ==
    IF Len(args) = 0
    THEN Result(IndexError, Msg("list index out of range", <<>>), h, data)
    ELSE LET name == args[1]
             record == AddressBook_find(data, name)
         IN  IF record = 0
             THEN Result(NoErr, Msg("Contact {name} not found.", <<name>>), h, data)
             ELSE IF Truthy(h[record].birthday)
             THEN Result(NoErr, Msg("Birthday for {name} is {value}.",
                                    <<name, h[record].birthday.value>>), h, data)
             ELSE Result(NoErr, Msg("Birthday for {name} is not set.", <<name>>), h, data)

show_birthday(args, h, data) == input_error(show_birthday_body(args, h, data))

\* birthdays, undecorated; now is what datetime.today() returns in the call.
birthdays_body(args, h, data, now) ==
    LET upcoming_birthdays == AddressBook_get_upcoming_birthdays(h, data, now)
    IN  IF upcoming_birthdays.raised # NoErr
        THEN Result(upcoming_birthdays.raised, Msg("day is out of range for month", <<>>),
                    h, data)
        ELSE IF Len(upcoming_birthdays.ret) = 0
        THEN Result(NoErr, Msg("No birthdays in the next week.", <<>>), h, data)
        ELSE Result(NoErr, Msg("Upcoming birthdays:", upcoming_birthdays.ret), h, data)

birthdays(args, h, data, now) == input_error(birthdays_body(args, h, data, now))

\* " ".join(words)
RECURSIVE Join(_)
Join(words) ==
    IF Len(words) = 0 THEN <<>>
    ELSE IF Len(words) = 1 THEN words[1]
    ELSE words[1] \o <<" ">> \o Join(Tail(words))

\* The command words main compares with.
KnownCommands ==
    {Cmd_close, Cmd_exit, Cmd_hello, Cmd_add, Cmd_change, Cmd_phone, Cmd_all,
     Cmd_add_birthday, Cmd_show_birthday, Cmd_birthdays}

CommandWords ==
    KnownCommands \cup {Cmd_unknown}

ArgWords == {NameA, PhoneOne, PhoneTwo, TextLeapDay}

ArgLists == UNION {[1..n -> ArgWords] : n \in 0..MaxArgs}

\* The lines input() returns: a command word and up to MaxArgs arguments, the
\* same with blanks around it, and the lines that hold no word at all.
Lines ==
    {Join(<<c>> \o a) : c \in CommandWords, a \in ArgLists}
        \cup {<<" ">> \o c \o <<" ", " ">> \o NameA \o <<" ">> : c \in CommandWords}
        \cup {<<>>, <<" ">>, <<" ", " ">>}

\* What parse_input makes of the lines: the calls that raise, and for every
\* command word read the argument lists read with it.
Inputs == {parse_input(line) : line \in Lines}

RaisingInputs == {p \in Inputs : p.raised # NoErr}

CommandsRead == {p.command : p \in Inputs \ RaisingInputs}

ArgsOf == [c \in CommandsRead |-> {p.args : p \in {q \in Inputs : q.command = c}}]

\* What datetime.today() returns during the run.
MainDays == {Date(2023, 6, 10), Date(2024, 2, 26)}

\* Within the bounds of the model.
Bounded(res) ==
    /\ Len(res.book) <= MaxContacts
    /\ \A r \in 1..Len(res.heap) : Len(res.heap[r].phones) <= MaxPhones

\* One pass of the loop of main that ends with print(handler(args, book)).
Printed(command, res) ==
    /\ Bounded(res)
    /\ heap' = res.heap
    /\ book' = res.book
    /\ out' = Call(command, <<>>, res.raised, res.msg)
    /\ pre' = Entry
    /\ status' = IF res.raised = NoErr THEN "reading" ELSE "crashed"
    /\ UNCHANGED today

\* parse_input raises: nothing in main catches it and the process ends.
MainRaise(p) ==
    /\ status = "reading"
    /\ out' = Call("parse_input", <<>>, p.raised, Msg("list index out of range", <<>>))
    /\ pre' = Entry
    /\ status' = "crashed"
    /\ UNCHANGED <<heap, book, today>>

\* "close" or "exit": save_data, "Good bye!", break.
MainExit(command, args) ==
    /\ status = "reading"
    /\ command \in {Cmd_close, Cmd_exit}
    /\ out' = Call("exit", <<>>, NoErr, Msg("Good bye!", <<>>))
    /\ pre' = Entry
    /\ status' = "stopped"
    /\ UNCHANGED <<heap, book, today>>

MainHello(args) ==
    /\ status = "reading"
    /\ Printed("hello", Result(NoErr, Msg("How can I help you?", <<>>), heap, book))

MainAdd(args) ==
    /\ status = "reading"
    /\ Printed("add", add_contact(args, heap, book))

MainChange(args) ==
    /\ status = "reading"
    /\ Printed("change", change_phone(args, heap, book))

MainPhone(args) ==
    /\ status = "reading"
    /\ Printed("phone", show_phone(args, heap, book))

MainAll(args) ==
    /\ status = "reading"
    /\ Printed("all", show_all_contacts(args, heap, book))

MainAddBirthday(args) ==
    /\ status = "reading"
    /\ Printed("add-birthday", add_birthday(args, heap, book))

MainShowBirthday(args) ==
    /\ status = "reading"
    /\ Printed("show-birthday", show_birthday(args, heap, book))

MainBirthdays(args) ==
    /\ status = "reading"
    /\ \E now \in MainDays : Printed("birthdays", birthdays(args, heap, book, now))

MainInvalid(command, args) ==
    /\ status = "reading"
    /\ command \notin KnownCommands
    /\ Printed("invalid", Result(NoErr, Msg("Invalid command.", <<>>), heap, book))

\* load_data finds no file: an empty AddressBook.
InitMain ==
    /\ heap = <<>>
    /\ book = <<>>
    /\ out = Call("load_data", <<>>, NoErr, Msg("Welcome to the assistant bot!", <<>>))
    /\ pre = [heap |-> <<>>, book |-> <<>>]
    /\ today = NoDate
    /\ status = "reading"

NextMain ==
    \/ \E p \in RaisingInputs : MainRaise(p)
    \/ \E command \in {Cmd_close, Cmd_exit} : \E args \in ArgsOf[command] : MainExit(command, args)
    \/ \E args \in ArgsOf[Cmd_hello] : MainHello(args)
    \/ \E args \in ArgsOf[Cmd_add] : MainAdd(args)
    \/ \E args \in ArgsOf[Cmd_change] : MainChange(args)
    \/ \E args \in ArgsOf[Cmd_phone] : MainPhone(args)
    \/ \E args \in ArgsOf[Cmd_all] : MainAll(args)
    \/ \E args \in ArgsOf[Cmd_add_birthday] : MainAddBirthday(args)
    \/ \E args \in ArgsOf[Cmd_show_birthday] : MainShowBirthday(args)
    \/ \E args \in ArgsOf[Cmd_birthdays] : MainBirthdays(args)
    \/ \E command \in CommandsRead \ KnownCommands : \E args \in ArgsOf[command] :
           MainInvalid(command, args)

SpecMain == InitMain /\ [][NextMain]_vars

(***************************************************************************)
(* The claims about one record (specification Spec).                       *)
(***************************************************************************)
Count(phones, v) == Cardinality({i \in 1..Len(phones) : phones[i] = v})

EditedRef == out.args[1]
EditedOld == out.args[2]
EditedNew == out.args[3]
PhonesBefore == pre.heap[out.args[1]].phones
PhonesAfter == heap[out.args[1]].phones

\* The case of C3: edit_phone(old, new) with old present and new a valid
\* 10-digit number other than old.
EditReplaces ==
    /\ out.op = "edit_phone"
    /\ FirstMatch(PhonesBefore, EditedOld) # 0
    /\ TenDecimalDigits(EditedNew)
    /\ EditedNew # EditedOld

\* C3 as stated: after edit_phone(old, new) with old present and new a valid
\* number other than old, the count and every other position are unchanged,
\* find_phone(old) returns none and find_phone(new) returns a phone.
C3_OldNeverFound ==
    EditReplaces =>
        /\ Len(PhonesAfter) = Len(PhonesBefore)
        /\ \A j \in 1..Len(PhonesBefore) :
               j # FirstMatch(PhonesBefore, EditedOld) => PhonesAfter[j] = PhonesBefore[j]
        /\ Record_find_phone(heap[EditedRef], EditedOld) = 0
        /\ Record_find_phone(heap[EditedRef], EditedNew) # 0

\* C3 amended: the count and every other position are unchanged, the first
\* phone equal to old now holds new, find_phone(new) returns a phone, and
\* find_phone(old) returns none exactly when old occurred once before the call.
C3_FirstMatchReplaced ==
    EditReplaces =>
        /\ Len(PhonesAfter) = Len(PhonesBefore)
        /\ \A j \in 1..Len(PhonesBefore) :
               j # FirstMatch(PhonesBefore, EditedOld) => PhonesAfter[j] = PhonesBefore[j]
        /\ PhonesAfter[FirstMatch(PhonesBefore, EditedOld)] = EditedNew
        /\ Record_find_phone(heap[EditedRef], EditedNew) # 0
        /\ (Record_find_phone(heap[EditedRef], EditedOld) = 0
                <=> Count(PhonesBefore, EditedOld) = 1)

\* An edit that replaced the first of two equal phones.
C3_Witness ==
    /\ EditReplaces
    /\ Count(PhonesBefore, EditedOld) = 2
    /\ PhonesAfter # PhonesBefore

\* C6: a birthday that is set never changes, whatever operation follows; an
\* add_birthday on a record that has one raises an error and leaves it; a
\* record holds no birthday or one Birthday.
C6_BirthdaySetOnce ==
    /\ \A r \in 1..Len(pre.heap) :
           Truthy(pre.heap[r].birthday) =>
               /\ heap[r].birthday = pre.heap[r].birthday
               /\ (out.op = "add_birthday" /\ out.args[1] = r) => out.raised = ValueError
    /\ \A r \in Refs : heap[r].birthday = None \/ IsBirthday(heap[r].birthday)

\* A second add_birthday, with another valid Birthday, that was refused.
C6_Witness ==
    /\ out.op = "add_birthday"
    /\ Truthy(pre.heap[out.args[1]].birthday)
    /\ IsBirthday(out.args[2])
    /\ out.args[2] # pre.heap[out.args[1]].birthday
    /\ out.raised = ValueError
    /\ heap[out.args[1]].birthday = pre.heap[out.args[1]].birthday

\* C7 as stated: every stored phone is a string of exactly 10 decimal digits,
\* and an add_phone or edit_phone whose new value is not such a string raises
\* a validation error and leaves the phones unchanged.
C7_OnlyTenDecimalDigits ==
    /\ \A r \in Refs : \A i \in 1..Len(heap[r].phones) : TenDecimalDigits(heap[r].phones[i])
    /\ (out.op = "add_phone" /\ ~TenDecimalDigits(out.args[2])) =>
           out.raised = ValueError /\ PhonesAfter = PhonesBefore
    /\ (out.op = "edit_phone" /\ ~TenDecimalDigits(out.args[3])) =>
           out.raised = ValueError /\ PhonesAfter = PhonesBefore

\* C9: edit_phone(old, new) with old absent leaves the phones unchanged and
\* raises nothing, whatever new is.
C9_EditAbsentIsNoOp ==
    (out.op = "edit_phone" /\ FirstMatch(PhonesBefore, EditedOld) = 0) =>
        PhonesAfter = PhonesBefore /\ out.raised = NoErr

\* An edit_phone on a record with phones, old absent and new not a valid number.
C9_Witness ==
    /\ out.op = "edit_phone"
    /\ Len(PhonesBefore) > 0
    /\ FirstMatch(PhonesBefore, EditedOld) = 0
    /\ Phone(EditedNew).raised = ValueError
    /\ out.raised = NoErr

(***************************************************************************)
(* The claim about the directory (specification SpecBook).                 *)
(***************************************************************************)
\* C8: add_record(r) with r's name already a key: find(name) returns r, the
\* record stored before is no longer in the directory (unless it is r), the
\* number of entries and every other entry are unchanged; and in every state
\* each key is the name of the record stored under it.
C8_OverwriteReplaces ==
    /\ \A i \in 1..Len(book) : book[i].key = heap[book[i].ref].name
    /\ (out.op = "add_record" /\ KeyIndex(pre.book, heap[out.args[1]].name) # 0) =>
           LET r == out.args[1]
               k == KeyIndex(pre.book, heap[r].name)
           IN  /\ AddressBook_find(book, heap[r].name) = r
               /\ Len(book) = Len(pre.book)
               /\ \A i \in 1..Len(pre.book) : i # k => book[i] = pre.book[i]
               /\ \A i \in 1..Len(book) : book[i].ref = pre.book[k].ref => pre.book[k].ref = r

\* An add_record that replaced a record holding a phone and a birthday by
\* another record, next to an entry under another name.
C8_Witness ==
    /\ out.op = "add_record"
    /\ Len(book) = 2
    /\ KeyIndex(pre.book, heap[out.args[1]].name) # 0
    /\ LET old == pre.book[KeyIndex(pre.book, heap[out.args[1]].name)].ref
       IN  /\ old # out.args[1]
           /\ Len(heap[old].phones) > 0
           /\ Truthy(heap[old].birthday)
           /\ heap[out.args[1]] # heap[old]

(***************************************************************************)
(* The claims about get_upcoming_birthdays (specification SpecBirthdays).  *)
(***************************************************************************)
IsLeapDay(dt) == dt.m = 2 /\ dt.d = 29

Called == out.op = "get_upcoming_birthdays"

\* The records of the directory that have a birthday.
WithBirthdays == {r \in Refs : Truthy(heap[r].birthday)}

\* The entry returned for the record named name, if any.
EntriesOf(name) == {i \in 1..Len(out.ret) : out.ret[i].name = name}

\* The birthday's month and day fall on today + n for some n in 0..7, today
\* being counted forward day by day.
WithinWeek(birthday, now) ==
    \E n \in 0..7 : AddDays(now, n).m = birthday.m /\ AddDays(now, n).d = birthday.d

\* C2 as stated: with a record born on February 29 in the directory,
\* get_upcoming_birthdays returns a list and raises nothing, for every today.
C2_LeapDayNeverRaises ==
    (Called /\ \E r \in WithBirthdays : IsLeapDay(heap[r].birthday.date_value)) =>
        out.raised = NoErr

\* C4 as stated: a record with a birthday other than February 29 is in the
\* result exactly when its next occurrence is 0 to 7 days after today, and a
\* record without a birthday is never in it.
C4_InResultIffWithinWeek ==
    Called =>
        \A r \in Refs :
            IF ~Truthy(heap[r].birthday) THEN EntriesOf(heap[r].name) = {}
            ELSE ~IsLeapDay(heap[r].birthday.date_value) =>
                     (EntriesOf(heap[r].name) # {}
                          <=> WithinWeek(heap[r].birthday.date_value, today))

\* C4 in the directories that hold no record born on February 29.
C4_WithoutLeapDays ==
    (\A r \in WithBirthdays : ~IsLeapDay(heap[r].birthday.date_value)) =>
        /\ Called => out.raised = NoErr
        /\ C4_InResultIffWithinWeek

\* The first date on or after now with the birthday's month and day.
Occurrence(birthday, now) ==
    IF birthday.m > now.m \/ (birthday.m = now.m /\ birthday.d >= now.d)
    THEN Date(now.y, birthday.m, birthday.d)
    ELSE Date(now.y + 1, birthday.m, birthday.d)

\* The date a text YYYY.MM.DD denotes.
DateOfText(text) ==
    Date(int(SubSeq(text, 1, 4)), int(SubSeq(text, 6, 7)), int(SubSeq(text, 9, 10)))

\* The record an entry of the result is about.
RecordNamed(name) == heap[CHOOSE r \in Refs : heap[r].name = name]

\* C5: every returned congratulation date is the occurrence plus 2 days on a
\* Saturday, plus 1 day on a Sunday, the occurrence itself otherwise; it is no
\* Saturday or Sunday and lies between today and today + 9 days.
C5_WeekendShift ==
    Called =>
        \A i \in 1..Len(out.ret) :
            LET occ == Occurrence(RecordNamed(out.ret[i].name).birthday.date_value, today)
                expected == IF weekday(occ) = 5 THEN AddDays(occ, 2)
                            ELSE IF weekday(occ) = 6 THEN AddDays(occ, 1)
                            ELSE occ
                congratulation == DateOfText(out.ret[i].congratulation_date)
            IN  /\ out.ret[i].congratulation_date = strftime(expected)
                /\ congratulation = expected
                /\ weekday(congratulation) \notin {5, 6}
                /\ toordinal(congratulation) - toordinal(today) \in 0..9

\* A birthday on the Saturday 7 days after today, congratulated 9 days after today.
C5_Witness ==
    /\ Called
    /\ \E i \in 1..Len(out.ret) :
           LET occ == Occurrence(RecordNamed(out.ret[i].name).birthday.date_value, today)
           IN  /\ weekday(occ) = 5
               /\ toordinal(occ) - toordinal(today) = 7
               /\ DateOfText(out.ret[i].congratulation_date) = AddDays(today, 9)

(***************************************************************************)
(* The claims about the command loop (specification SpecMain).             *)
(***************************************************************************)
\* C1 as stated: every line is answered with a message and the loop goes on;
\* the process stops only on close or exit, and no exception escapes the loop.
C1_NoLineEndsTheLoop ==
    /\ status # "crashed"
    /\ out.raised = NoErr
    /\ status = "stopped" => out.op = "exit"

\* C10 as stated: when add_contact returns an error message, the directory
\* and its records are as they were before the command.
C10_FailedAddChangesNothing ==
    (out.op = "add" /\ out.ret.text \notin {"Contact added.", "Contact updated."}) =>
        heap = pre.heap /\ book = pre.book

====
